---- MODULE Spec2Model ----
(***************************************************************************)
(* Model of aces_ddx_ssts_sigmoid.py: the piecewise gradient function      *)
(* sigmoid_gradient, the samplers process / process_integrate, and the     *)
(* slider window that redraws both curves on every slider change.          *)
(*                                                                         *)
(* Numbers.  The program computes in IEEE doubles (x is an element of an   *)
(* ndarray, so every division and pow has a numpy float64 operand and      *)
(* yields nan / inf instead of raising).  The model computes in exact      *)
(* rationals <<n, d>> (d > 0, lowest terms) and keeps the three special    *)
(* doubles as <<0, 0>> (nan), <<1, 0>> (+inf) and <<-1, 0>> (-inf).        *)
(* pow with a non-integer exponent is irrational in general; it is         *)
(* rounded down to a multiple of 1/PowScale (exact at bases 0 and 1, as    *)
(* the double pow is).                                                     *)
(***************************************************************************)
EXTENDS Integers, Sequences, FiniteSets

VARIABLES
    body_y_slider, knee_x_slider, shoulder_x_slider,
    knee_exp_slider, shoulder_exp_slider,   \* Slider.val of the five sliders
    line1, line2,                           \* ydata of the two plotted lines
    pc, args, ret                           \* one call of a core function

vars == <<body_y_slider, knee_x_slider, shoulder_x_slider, knee_exp_slider,
          shoulder_exp_slider, line1, line2, pc, args, ret>>

(***************************************************************************)
(* Bounds of the model.                                                    *)
(***************************************************************************)
\* x_data has GridDen samples per unit (the program: 100).
GridDen == 2
\* Resolution of pow for non-integer exponents.
PowScale == 8
\* Longest grid handed to process / process_integrate in SpecSample.
MaxGridLen == 3

(***************************************************************************)
(* Double arithmetic.                                                      *)
(***************************************************************************)
Abs(n) == IF n < 0 THEN -n ELSE n

Sign(n) == IF n > 0 THEN 1 ELSE IF n < 0 THEN -1 ELSE 0

RECURSIVE Gcd(_, _)
Gcd(a, b) == IF b = 0 THEN a ELSE Gcd(b, a % b)

\* The double n/d, d # 0, in lowest terms with a positive denominator.
Rat(n, d) ==
    LET g == Gcd(Abs(n), Abs(d))
    IN  <<Sign(n) * Sign(d) * (Abs(n) \div g), Abs(d) \div g>>

Num(n) == <<n, 1>>

NaN == <<0, 0>>
PosInf == <<1, 0>>
NegInf == <<-1, 0>>

IsFinite(a) == a[2] # 0

Neg(a) == <<-a[1], a[2]>>

Add(a, b) ==
    IF IsFinite(a) /\ IsFinite(b)
    THEN LET l == (a[2] \div Gcd(a[2], b[2])) * b[2]
         IN  Rat(a[1] * (l \div a[2]) + b[1] * (l \div b[2]), l)
    ELSE IF a = NaN \/ b = NaN THEN NaN
    ELSE IF IsFinite(a) THEN b
    ELSE IF IsFinite(b) \/ a = b THEN a
    ELSE NaN

Sub(a, b) == Add(a, Neg(b))

Mul(a, b) ==
    IF IsFinite(a) /\ IsFinite(b)
    THEN LET g1 == Gcd(Abs(a[1]), b[2])
             g2 == Gcd(Abs(b[1]), a[2])
         IN  Rat((a[1] \div g1) * (b[1] \div g2), (a[2] \div g2) * (b[2] \div g1))
    ELSE IF a = NaN \/ b = NaN \/ a[1] = 0 \/ b[1] = 0 THEN NaN
    ELSE <<Sign(a[1]) * Sign(b[1]), 0>>

\* numpy float64 true division: x/0 is nan (x = 0) or +-inf, never an exception.
Div(a, b) ==
    IF IsFinite(a) /\ IsFinite(b)
    THEN IF b[1] = 0 THEN <<Sign(a[1]), 0>>
         ELSE Mul(a, <<Sign(b[1]) * b[2], Abs(b[1])>>)
    ELSE IF a = NaN \/ b = NaN THEN NaN
    ELSE IF IsFinite(a) THEN Num(0)
    ELSE IF IsFinite(b) THEN <<a[1] * (IF b[1] < 0 THEN -1 ELSE 1), 0>>
    ELSE NaN

\* a <= b and a < b on doubles: any comparison with nan is false.
Le(a, b) ==
    IF IsFinite(a) /\ IsFinite(b) THEN a[1] * b[2] <= b[1] * a[2]
    ELSE a # NaN /\ b # NaN /\ a[1] <= b[1]

Lt(a, b) ==
    IF IsFinite(a) /\ IsFinite(b) THEN a[1] * b[2] < b[1] * a[2]
    ELSE a # NaN /\ b # NaN /\ a[1] < b[1]

RECURSIVE IntPow(_, _)
IntPow(n, k) == IF k = 0 THEN 1 ELSE n * IntPow(n, k - 1)

\* Largest k in 0..hi with k^q * d^r <= n^r * PowScale^q: floor(PowScale * (n/d)^(r/q)).
RECURSIVE RootFloor(_, _, _, _, _)
RootFloor(n, d, r, q, k) ==
    IF k = 0 \/ IntPow(k, q) * IntPow(d, r) <= IntPow(n, r) * IntPow(PowScale, q)
    THEN k
    ELSE RootFloor(n, d, r, q, k - 1)

\* pow(b, e) for a double b and a finite exponent e >= 0.
Pow(b, e) ==
    LET whole == e[1] \div e[2]
        r     == e[1] % e[2]
    IN  IF e[1] = 0 THEN Num(1)
        ELSE IF b = NaN THEN NaN
        ELSE IF b = PosInf THEN PosInf
        ELSE IF b = NegInf THEN (IF r = 0 /\ whole % 2 = 1 THEN NegInf ELSE PosInf)
        ELSE IF r = 0 THEN Rat(IntPow(b[1], whole), IntPow(b[2], whole))
        ELSE IF b[1] < 0 THEN NaN
        ELSE Mul(Rat(IntPow(b[1], whole), IntPow(b[2], whole)),
                 Rat(RootFloor(b[1], b[2], r, e[2],
                               PowScale * ((b[1] \div b[2]) + 1)),
                     PowScale))

(***************************************************************************)
(* The program's functions.                                                *)
(***************************************************************************)
\* lerp(a, b, t)
lerp(a, b, t) == Add(a, Mul(Sub(b, a), t))

\* Coordinate({"x": .., "y": ..})
Coordinate(x, y) == [x |-> x, y |-> y]

\* Which arm of the if / elif chain of sigmoid_gradient takes x, with one of
\* the inclusive bounds dropped or made strict.
Segment_strictKnee(x, toe, knee, shoulder, head) ==
    IF Le(toe.x, x) /\ Lt(x, knee.x) THEN "toe_knee"
    ELSE IF Lt(knee.x, x) /\ Le(x, shoulder.x) THEN "body"
    ELSE IF Lt(shoulder.x, x) /\ Le(x, head.x) THEN "shoulder_head"
    ELSE "tail"

Segment_noToeBound(x, toe, knee, shoulder, head) ==
    IF Le(x, knee.x) THEN "toe_knee"
    ELSE IF Lt(knee.x, x) /\ Le(x, shoulder.x) THEN "body"
    ELSE IF Lt(shoulder.x, x) /\ Le(x, head.x) THEN "shoulder_head"
    ELSE "tail"

Segment_noHeadBound(x, toe, knee, shoulder, head) ==
    IF Le(toe.x, x) /\ Le(x, knee.x) THEN "toe_knee"
    ELSE IF Lt(knee.x, x) /\ Le(x, shoulder.x) THEN "body"
    ELSE IF Lt(shoulder.x, x) THEN "shoulder_head"
    ELSE "tail"

\* The arm of the if / elif / elif / else chain that takes x (first match).
Segment(x, toe, knee, shoulder, head) ==
    IF Le(toe.x, x) /\ Le(x, knee.x) THEN "toe_knee"
    ELSE IF Lt(knee.x, x) /\ Le(x, shoulder.x) THEN "body"
    ELSE IF Lt(shoulder.x, x) /\ Le(x, head.x) THEN "shoulder_head"
    ELSE "tail"

\* (pow(x / knee.x, tk_exp) + toe.y) * knee.y
ToeKneeFormula(x, toe, knee, tk_exp) ==
    Mul(Add(Pow(Div(x, knee.x), tk_exp), toe.y), knee.y)

\* lerp(knee.y, shoulder.y, (x - knee.x) / (shoulder.x - knee.x))
BodyFormula(x, knee, shoulder) ==
    lerp(knee.y, shoulder.y, Div(Sub(x, knee.x), Sub(shoulder.x, knee.x)))

\* pow(((head.x - shoulder.x) - (x - shoulder.x)) / (head.x - shoulder.x), sh_exp)
\*     * (shoulder.y - head.y) + head.y
ShoulderHeadFormula(x, shoulder, head, sh_exp) ==
    Add(Mul(Pow(Div(Sub(Sub(head.x, shoulder.x), Sub(x, shoulder.x)),
                    Sub(head.x, shoulder.x)),
                sh_exp),
            Sub(shoulder.y, head.y)),
        head.y)

sigmoid_gradient(x, toe, knee, tk_exp, shoulder, head, sh_exp) ==
    LET seg == Segment(x, toe, knee, shoulder, head)
    IN  IF seg = "toe_knee" THEN ToeKneeFormula(x, toe, knee, tk_exp)
        ELSE IF seg = "body" THEN BodyFormula(x, knee, shoulder)
        ELSE IF seg = "shoulder_head" THEN ShoulderHeadFormula(x, shoulder, head, sh_exp)
        ELSE head.y

\* np.zeros(n)
Zeros(n) == [i \in 1..n |-> Num(0)]

\* The toe and head every call of process builds.
ProcessToe == Coordinate(Num(0), Num(0))
ProcessHead == Coordinate(Num(3), Rat(1, 20))

\* The for loop of process from index idx on (idx is 1-based here).
RECURSIVE ProcessLoop(_, _, _, _, _, _, _, _, _)
ProcessLoop(idx, y_data, x_data, _knee, _knee_x, _shoulder, _shoulder_x, _k_exp, _s_exp) ==
    IF idx > Len(x_data) THEN y_data
    ELSE ProcessLoop(idx + 1,
                     [y_data EXCEPT ![idx] =
                         sigmoid_gradient(x_data[idx], ProcessToe,
                                          Coordinate(_knee_x, _knee), _k_exp,
                                          Coordinate(_shoulder_x, _shoulder),
                                          ProcessHead, _s_exp)],
                     x_data, _knee, _knee_x, _shoulder, _shoulder_x, _k_exp, _s_exp)

\* process filling y_data from the far end (grid order not preserved).
process_reversed(x_data, _knee, _knee_x, _shoulder, _shoulder_x, _k_exp, _s_exp) ==
    LET y == ProcessLoop(1, Zeros(Len(x_data)), x_data, _knee, _knee_x, _shoulder,
                         _shoulder_x, _k_exp, _s_exp)
    IN  [i \in DOMAIN y |-> y[Len(y) + 1 - i]]

process(x_data, _knee, _knee_x, _shoulder, _shoulder_x, _k_exp, _s_exp) ==
    ProcessLoop(1, Zeros(Len(x_data)), x_data, _knee, _knee_x, _shoulder,
                _shoulder_x, _k_exp, _s_exp)

\* np.cumsum: the running total, left to right.
RECURSIVE CumsumLoop(_, _, _, _)
CumsumLoop(y, i, acc, out) ==
    IF i > Len(y) THEN out
    ELSE CumsumLoop(y, i + 1, Add(acc, y[i]), Append(out, Add(acc, y[i])))

\* A running total that leaves the current element out (an exclusive scan).
cumsum_exclusive(y) ==
    LET c == CumsumLoop(y, 1, Num(0), <<>>)
    IN  [i \in DOMAIN y |-> Sub(c[i], y[i])]

cumsum(y) == CumsumLoop(y, 1, Num(0), <<>>)

process_integrate(x_data, _knee, _knee_x, _shoulder, _shoulder_x, _k_exp, _s_exp) ==
    cumsum(process(x_data, _knee, _knee_x, _shoulder, _shoulder_x, _k_exp, _s_exp))

\* ndarray * k
ScaleBy(y, k) == [i \in DOMAIN y |-> Mul(y[i], k)]

\* np.arange(0, ArangeStop, 1.0 / GridDen)
ArangeStop == 4
x_data == [i \in 1..(ArangeStop * GridDen) |-> Rat(i - 1, GridDen)]

\* The factor of the gradient line.
LineScale == 200

\* sliders_on_changed with the knee exponent passed for both exponents.
sliders_on_changed_oneExp(body, knee_x, shoulder_x, knee_exp, shoulder_exp) ==
    [line1 |-> ScaleBy(process(x_data, body, knee_x, body, shoulder_x,
                               knee_exp, knee_exp), Num(LineScale)),
     line2 |-> process_integrate(x_data, body, knee_x, body, shoulder_x,
                                 knee_exp, knee_exp)]

\* sliders_on_changed: the ydata it sets on the two lines, from the sliders' values.
sliders_on_changed(body, knee_x, shoulder_x, knee_exp, shoulder_exp) ==
    [line1 |-> ScaleBy(process(x_data, body, knee_x, body, shoulder_x,
                               knee_exp, shoulder_exp), Num(LineScale)),
     line2 |-> process_integrate(x_data, body, knee_x, body, shoulder_x,
                                 knee_exp, shoulder_exp)]

(***************************************************************************)
(* The slider window.                                                      *)
(***************************************************************************)
\* Positions a slider can be dragged to, inside Slider(ax, label, valmin, valmax).
BodyVals == {Rat(1, 100), Rat(1, 2), Num(1)}
KneeXVals == {Num(0), Num(1), Rat(3, 2), Num(2)}
ShoulderXVals == {Num(1), Num(2), Num(3)}
ExpVals == {Num(0), Rat(11, 5), Num(3)}

\* The two lines as first plotted.
InitLine1 ==
    ScaleBy(process(x_data, Rat(1, 2), Num(1), Rat(1, 2), Num(2), Rat(11, 5),
                    Rat(11, 5)), Num(LineScale))
InitLine2 ==
    process_integrate(x_data, Rat(1, 2), Num(1), Rat(1, 2), Num(2), Rat(11, 5),
                      Rat(11, 5))

\* The window after construction: valinit of each slider, the lines as plotted.
Window ==
    /\ body_y_slider = Rat(1, 2)
    /\ knee_x_slider = Num(1)
    /\ shoulder_x_slider = Num(2)
    /\ knee_exp_slider = Rat(11, 5)
    /\ shoulder_exp_slider = Rat(11, 5)
    /\ line1 = InitLine1
    /\ line2 = InitLine2

NoCall == <<>>

Init ==
    /\ Window
    /\ pc = "idle"
    /\ args = NoCall
    /\ ret = NoCall

\* The callback every slider is wired to, run after the slider took its value.
Changed ==
    LET drawn == sliders_on_changed(body_y_slider', knee_x_slider',
                                    shoulder_x_slider', knee_exp_slider',
                                    shoulder_exp_slider')
    IN  /\ line1' = drawn.line1
        /\ line2' = drawn.line2
        /\ UNCHANGED <<pc, args, ret>>

BodyYChanged ==
    \E val \in BodyVals :
        /\ body_y_slider' = val
        /\ UNCHANGED <<knee_x_slider, shoulder_x_slider, knee_exp_slider,
                       shoulder_exp_slider>>
        /\ Changed

KneeXChanged ==
    \E val \in KneeXVals :
        /\ knee_x_slider' = val
        /\ UNCHANGED <<body_y_slider, shoulder_x_slider, knee_exp_slider,
                       shoulder_exp_slider>>
        /\ Changed

ShoulderXChanged ==
    \E val \in ShoulderXVals :
        /\ shoulder_x_slider' = val
        /\ UNCHANGED <<body_y_slider, knee_x_slider, knee_exp_slider,
                       shoulder_exp_slider>>
        /\ Changed

KneeExpChanged ==
    \E val \in ExpVals :
        /\ knee_exp_slider' = val
        /\ UNCHANGED <<body_y_slider, knee_x_slider, shoulder_x_slider,
                       shoulder_exp_slider>>
        /\ Changed

ShoulderExpChanged ==
    \E val \in ExpVals :
        /\ shoulder_exp_slider' = val
        /\ UNCHANGED <<body_y_slider, knee_x_slider, shoulder_x_slider,
                       knee_exp_slider>>
        /\ Changed

Next ==
    \/ BodyYChanged
    \/ KneeXChanged
    \/ ShoulderXChanged
    \/ KneeExpChanged
    \/ ShoulderExpChanged

Spec == Init /\ [][Next]_vars

(***************************************************************************)
(* One call of sigmoid_gradient on arguments drawn from bounded sets.      *)
(***************************************************************************)
EvalX == {Num(-1), Rat(-1, 2), Num(0), Rat(1, 2), Num(1), Rat(3, 2), Num(2), Rat(5, 2)}
EvalToe == {Coordinate(x, y) : x \in {Rat(-1, 2), Num(0), Rat(1, 2)}, y \in {Num(0), Rat(1, 2)}}
EvalKnee == {Coordinate(x, y) : x \in {Num(0), Rat(1, 2), Num(1)}, y \in {Rat(1, 2), Num(1)}}
EvalShoulder == {Coordinate(x, y) : x \in {Rat(1, 2), Num(1), Rat(3, 2)}, y \in {Rat(1, 2), Num(1)}}
EvalHead == {Coordinate(x, y) : x \in {Num(1), Num(2)}, y \in {Rat(1, 20), Rat(1, 2)}}
EvalExp == {Num(0), Num(2), Rat(11, 5)}

InitEval ==
    /\ Window
    /\ pc = "call"
    /\ args \in [x : EvalX, toe : EvalToe, knee : EvalKnee, tk_exp : EvalExp,
                 shoulder : EvalShoulder, head : EvalHead, sh_exp : EvalExp]
    /\ ret = NoCall

Evaluate ==
    /\ pc = "call"
    /\ pc' = "done"
    /\ ret' = [seg   |-> Segment(args.x, args.toe, args.knee, args.shoulder, args.head),
               value |-> sigmoid_gradient(args.x, args.toe, args.knee, args.tk_exp,
                                          args.shoulder, args.head, args.sh_exp)]
    /\ UNCHANGED <<args, body_y_slider, knee_x_slider, shoulder_x_slider,
                   knee_exp_slider, shoulder_exp_slider, line1, line2>>

NextEval == Evaluate

SpecEval == InitEval /\ [][NextEval]_vars

(***************************************************************************)
(* One call of process or process_integrate on a grid and parameters       *)
(* drawn from bounded sets.                                                *)
(***************************************************************************)
GridVals == {Num(0), Num(1), Rat(5, 2), Rat(7, 2)}
Grids == UNION {[1..n -> GridVals] : n \in 0..MaxGridLen}
SampleY == {Rat(1, 2), Num(1)}
SampleKneeX == {Num(0), Num(1), Num(2)}
SampleShoulderX == {Num(1), Num(2), Num(3)}
SampleExp == {Num(1), Rat(11, 5)}

InitSample ==
    /\ Window
    /\ pc = "call"
    /\ args \in [x_data : Grids, _knee : SampleY, _knee_x : SampleKneeX,
                 _shoulder : SampleY, _shoulder_x : SampleShoulderX,
                 _k_exp : SampleExp, _s_exp : SampleExp]
    /\ ret = NoCall

CallProcess ==
    /\ pc = "call"
    /\ pc' = "process_done"
    /\ ret' = process(args.x_data, args._knee, args._knee_x, args._shoulder,
                      args._shoulder_x, args._k_exp, args._s_exp)
    /\ UNCHANGED <<args, body_y_slider, knee_x_slider, shoulder_x_slider,
                   knee_exp_slider, shoulder_exp_slider, line1, line2>>

CallProcessIntegrate ==
    /\ pc = "call"
    /\ pc' = "integrate_done"
    /\ ret' = process_integrate(args.x_data, args._knee, args._knee_x,
                                args._shoulder, args._shoulder_x, args._k_exp,
                                args._s_exp)
    /\ UNCHANGED <<args, body_y_slider, knee_x_slider, shoulder_x_slider,
                   knee_exp_slider, shoulder_exp_slider, line1, line2>>

NextSample == CallProcess \/ CallProcessIntegrate

SpecSample == InitSample /\ [][NextSample]_vars

(***************************************************************************)
(* Properties.                                                             *)
(***************************************************************************)
\* toe.x < knee.x < shoulder.x < head.x
Ordered(toe, knee, shoulder, head) ==
    Lt(toe.x, knee.x) /\ Lt(knee.x, shoulder.x) /\ Lt(shoulder.x, head.x)

ArgsOrdered == Ordered(args.toe, args.knee, args.shoulder, args.head)

Positive(e) == IsFinite(e) /\ e[1] > 0

\* g[1] + ... + g[i], summed left to right.
RECURSIVE SumTo(_, _)
SumTo(g, i) == IF i = 0 THEN Num(0) ELSE Add(SumTo(g, i - 1), g[i])

\* The gradient sequence of the call in args (a call of process or process_integrate).
ArgsGradient ==
    process(args.x_data, args._knee, args._knee_x, args._shoulder,
            args._shoulder_x, args._k_exp, args._s_exp)

\* C1: for every ordered parameter set with positive exponents, toe.y # 0
\* included, the value returned at x = knee.x (the toe-knee formula) equals the
\* linear body formula there, and the value returned at x = shoulder.x (the
\* linear body formula) equals the shoulder-head formula there.
C1_ContinuousAtKneeAndShoulder ==
    (pc = "done" /\ ArgsOrdered /\ Positive(args.tk_exp) /\ Positive(args.sh_exp)) =>
        /\ args.x = args.knee.x =>
               ret.value = BodyFormula(args.x, args.knee, args.shoulder)
        /\ args.x = args.shoulder.x =>
               ret.value = ShoulderHeadFormula(args.x, args.shoulder, args.head,
                                               args.sh_exp)

\* C2: a call of sigmoid_gradient with knee.x = toe.x never returns a value
\* (it ends in a DegenerateSegment error instead).
C2_DegenerateNeverReturns ==
    ~(pc = "done" /\ args.knee.x = args.toe.x)

\* C3: a call of process or process_integrate whose control points are not
\* strictly increasing in x fails before any grid point is evaluated: it never
\* returns with an element of the output sequence produced.
C3_UnorderedProducesNoElement ==
    ~(/\ pc \in {"process_done", "integrate_done"}
      /\ ~Ordered(ProcessToe, Coordinate(args._knee_x, args._knee),
                  Coordinate(args._shoulder_x, args._shoulder), ProcessHead)
      /\ Len(ret) > 0)

\* C4: process_integrate returns a sequence as long as the grid whose element i
\* is the sum of elements 0..i of process on the same grid and parameters, not
\* multiplied by any step size; for three points it is [g0, g0+g1, g0+g1+g2].
C4_IntegrateIsPrefixSum ==
    pc = "integrate_done" =>
        /\ Len(ret) = Len(args.x_data)
        /\ \A i \in 1..Len(ret) : ret[i] = SumTo(ArgsGradient, i)
        /\ Len(ret) = 3 =>
               ret = <<ArgsGradient[1],
                       Add(ArgsGradient[1], ArgsGradient[2]),
                       Add(Add(ArgsGradient[1], ArgsGradient[2]), ArgsGradient[3])>>

\* C4 witness: a three-point grid integrated, with a gradient that is not all zero.
C4_Witness ==
    /\ pc = "integrate_done"
    /\ Len(ret) = 3
    /\ \A i \in 1..3 : IsFinite(ret[i])
    /\ ret[1] # Num(0)
    /\ ret[1] # ret[2]
    /\ ret[2] # ret[3]

\* C5: process returns a sequence as long as the grid whose element i is
\* sigmoid_gradient of grid element i; an empty grid gives an empty sequence.
C5_ProcessIsPointwise ==
    pc = "process_done" =>
        /\ Len(ret) = Len(args.x_data)
        /\ \A i \in 1..Len(ret) :
               ret[i] = sigmoid_gradient(args.x_data[i],
                                         Coordinate(Num(0), Num(0)),
                                         Coordinate(args._knee_x, args._knee),
                                         args._k_exp,
                                         Coordinate(args._shoulder_x, args._shoulder),
                                         Coordinate(Num(3), Rat(1, 20)),
                                         args._s_exp)
        /\ args.x_data = <<>> => ret = <<>>

\* C5 witness: a three-point grid sampled, first and last values different.
C5_Witness ==
    /\ pc = "process_done"
    /\ Len(args.x_data) = 3
    /\ Len(ret) = 3
    /\ ret[1] # ret[3]

C7_ExactlyOneSegment ==
    (pc = "done" /\ ArgsOrdered /\ Le(args.toe.x, args.x)) =>
        LET inToeKnee == Le(args.toe.x, args.x) /\ Le(args.x, args.knee.x)
            inBody == Lt(args.knee.x, args.x) /\ Le(args.x, args.shoulder.x)
            inShoulderHead == Lt(args.shoulder.x, args.x) /\ Le(args.x, args.head.x)
            inTail == Lt(args.head.x, args.x)
        IN  /\ Cardinality({d \in {<<1, inToeKnee>>, <<2, inBody>>,
                                   <<3, inShoulderHead>>, <<4, inTail>>} : d[2]}) = 1
            /\ inToeKnee =>
                   /\ ret.seg = "toe_knee"
                   /\ ret.value = ToeKneeFormula(args.x, args.toe, args.knee, args.tk_exp)
            /\ inBody =>
                   /\ ret.seg = "body"
                   /\ ret.value = BodyFormula(args.x, args.knee, args.shoulder)
            /\ inShoulderHead =>
                   /\ ret.seg = "shoulder_head"
                   /\ ret.value = ShoulderHeadFormula(args.x, args.shoulder, args.head,
                                                      args.sh_exp)
            /\ inTail => ret.seg = "tail" /\ ret.value = args.head.y

\* C7 witness: an ordered call at x = knee.x, answered by the toe-knee arm.
C7_Witness ==
    /\ pc = "done"
    /\ ArgsOrdered
    /\ args.x = args.knee.x
    /\ ret.seg = "toe_knee"

\* C8: in every state of the window the control points handed to
\* sigmoid_gradient satisfy 0 = toe.x < knee.x < shoulder.x < head.x.
C8_SlidersKeepOrdering ==
    /\ ProcessToe.x = Num(0)
    /\ Ordered(ProcessToe, Coordinate(knee_x_slider, body_y_slider),
               Coordinate(shoulder_x_slider, body_y_slider), ProcessHead)

\* C9: after any slider changes both lines show the curve of the current
\* slider values over x_data: line1 is 200 * process(...), line2 is
\* process_integrate(...), with knee.y = shoulder.y = Body, toe = (0, 0) and
\* head = (3.0, 0.05).
C9_LinesShowCurrentSliders ==
    LET grad == [i \in 1..Len(x_data) |->
                    sigmoid_gradient(x_data[i],
                                     Coordinate(Num(0), Num(0)),
                                     Coordinate(knee_x_slider, body_y_slider),
                                     knee_exp_slider,
                                     Coordinate(shoulder_x_slider, body_y_slider),
                                     Coordinate(Num(3), Rat(1, 20)),
                                     shoulder_exp_slider)]
    IN  /\ Len(line1) = Len(x_data)
        /\ Len(line2) = Len(x_data)
        /\ \A i \in 1..Len(x_data) :
               /\ line1[i] = Mul(grad[i], Num(200))
               /\ line2[i] = SumTo(grad, i)

\* C9 witness: every slider moved away from its initial value, the two
\* exponents different, and both lines redrawn.
C9_Witness ==
    /\ body_y_slider # Rat(1, 2)
    /\ knee_x_slider # Num(1)
    /\ shoulder_x_slider # Num(2)
    /\ knee_exp_slider # Rat(11, 5)
    /\ shoulder_exp_slider # Rat(11, 5)
    /\ knee_exp_slider # shoulder_exp_slider
    /\ line1 # InitLine1
    /\ line2 # InitLine2

\* C10: under the ordering invariant every x < toe.x falls through to the
\* final else and gets head.y.
C10_BelowToeGetsTail ==
    (pc = "done" /\ ArgsOrdered /\ Lt(args.x, args.toe.x)) =>
        ret.seg = "tail" /\ ret.value = args.head.y

\* C10 witness: x below an ordered toe, where head.y differs from both toe.y
\* and the toe-knee formula extended to x.
C10_Witness ==
    /\ pc = "done"
    /\ ArgsOrdered
    /\ Lt(args.x, args.toe.x)
    /\ ret.value = args.head.y
    /\ ret.value # args.toe.y
    /\ ret.value # ToeKneeFormula(args.x, args.toe, args.knee, args.tk_exp)

====
